---- MODULE Spec2Model ----
(***************************************************************************)
(* sync-agents: reconciliation of skill and agent definitions between      *)
(* ~/.claude (Primary), ~/.agents/skills (Shared) and ~/.codex/skills      *)
(* (Legacy), and of the project documents CLAUDE.md / AGENTS.md.           *)
(*                                                                         *)
(* A file tree is a record of directories; a directory is a function from  *)
(* relative paths (sequences of path segments) to file contents.  Text is  *)
(* a sequence of tokens: a body is a sequence of lines, a metadata value   *)
(* is a sequence of text fragments.  sync() is single threaded and runs to *)
(* completion, so one invocation is one action.                            *)
(***************************************************************************)
EXTENDS Integers, Sequences, FiniteSets, TLC

\* ------------------------------------------------------------------ bounds
\* Largest number of items (skill directories, agent documents) present in
\* the three trees before the first run.
MaxItems == 3
\* Number of consecutive invocations of sync() in one behaviour.
MaxRuns == 2

\* Item names, in the order readdir lists them.
NameOrder == <<"a", "b">>
Names == {NameOrder[i] : i \in 1..Len(NameOrder)}

\* ------------------------------------------------------------- file names
SKILL == "SKILL.md"
\* Entries of a skill directory's root, in the order readdir lists them.
RootOrder == <<SKILL, "notes.md", "run.ts">>
RootFiles == {RootOrder[i] : i \in 1..Len(RootOrder)}
endsWithMd(f) == f \in {SKILL, "notes.md"}
endsWithTs(f) == f \in {"run.ts"}

\* Relative paths inside a skill directory: root files, files of the
\* scripts/ subdirectory, files one level further down.
AllPaths ==
    {<<f>> : f \in RootFiles}
        \cup {<<"scripts", f>> : f \in {"run.ts"}}
        \cup {<<"scripts", "deep", f>> : f \in {"run.ts"}}

\* ---------------------------------------------------------------- content
\* Lines of a body.  The three provenance headers are the lines the
\* adapters generate; the others stand for user text.
HdrSkill == "> Auto-generated from Claude Code skill n by sync-agents"
HdrAgent == "> Auto-generated from Claude Code agent n by sync-agents"
HdrCodex == "> Auto-generated from Codex skill n by sync-agents"
Blank == ""
\* The capability tools the adapters know by the phrase "Use the T tool",
\* with the neutral phrase that replaces it.
Tools == {"Read", "Write", "Glob", "Grep", "Edit", "Bash"}
NeutralPhrase ==
    [Read |-> "Read the file", Write |-> "Write to the file",
     Glob |-> "Search for files", Grep |-> "Search file contents",
     Edit |-> "Edit the file", Bash |-> "Run the command"]
\* The tools the agent adapter knows by their backtick-quoted name ((bt)
\* stands for the backtick), with the neutral words that replace it.
BacktickTools == {"Glob", "Grep", "Read"}
BacktickNeutral ==
    [Glob |-> "file search", Grep |-> "content search", Read |-> "file read"]
\* A line that uses tool t by phrase, and the line it is rewritten to.
UseTool(t) == "Use the " \o t \o " tool to inspect."
Neutral(t) == NeutralPhrase[t] \o " to inspect."
\* A line that names tool t in backticks, and the line it is rewritten to.
Backticked(t) == "Run (bt)" \o t \o "(bt) first."
BacktickFree(t) == "Run " \o BacktickNeutral[t] \o " first."
UseRead == UseTool("Read")
ReadTheFile == Neutral("Read")
BtRead == Backticked("Read")
FileRead == BacktickFree("Read")
Headers == {HdrSkill, HdrAgent, HdrCodex}

Keys == {"name", "description", "model", "color"}

None == [kind |-> "none"]
\* A file whose bytes can be copied but whose YAML block does not parse.
Malformed == [kind |-> "malformed"]
\* A file that exists but cannot be read (or copied).
Unreadable == [kind |-> "unreadable"]
Script(t) == [kind |-> "script", text |-> t]
\* A markdown document: metadata block and body.
Doc(d, b) == [kind |-> "doc", data |-> d, body |-> b]

Present(c) == c.kind # "none"
\* readFile: throws on a file that cannot be read.
readFails(c) == c.kind = "unreadable"
\* readFile followed by matter(): throws as well on malformed YAML.
parseFails(c) == c.kind \in {"unreadable", "malformed"}

\* JavaScript truthiness of data[k]: the key is present and not empty.
Truthy(data, k) == k \in DOMAIN data /\ data[k] # <<>>

\* matter(raw): the metadata block and the body of a document.
matterData(c) == IF c.kind = "doc" THEN c.data ELSE <<>>
matterContent(c) == IF c.kind = "doc" THEN c.body ELSE <<>>
\* matter.stringify(body, data)
stringify(b, d) == Doc(d, b)

RECURSIVE trimStart(_)
trimStart(b) ==
    IF b # <<>> /\ Head(b) = Blank THEN trimStart(Tail(b)) ELSE b

\* ------------------------------------------------------------ directories
\* A directory: whether it exists and the content of each file in it.
NoFiles == [p \in AllPaths |-> None]
NoDir == [exists |-> FALSE, files |-> NoFiles]
\* mkdir(dir, {recursive: true})
mkdir(dir) == [dir EXCEPT !.exists = TRUE]
\* existsSync(join(dir, path))
existsSync(dir, path) == dir.exists /\ Present(dir.files[path])
\* Bun.write / copyFile: create or replace one file.
writeFile(dir, path, c) == [dir EXCEPT !.files[path] = c]
\* The files of a directory's root that satisfy Test, in readdir order.
rootEntries(dir, Test(_)) ==
    SelectSeq(RootOrder, LAMBDA f : Present(dir.files[<<f>>]) /\ Test(f))

\* A sequence of file writes performed in order.  Each write names its
\* destination path, the content written and whether producing the content
\* throws (the source cannot be read or parsed); the first throw ends the
\* sequence and leaves the earlier writes in place.
RECURSIVE applyWrites(_, _, _)
applyWrites(dir, writes, done) ==
    IF writes = <<>> THEN [dir |-> dir, threw |-> FALSE, files |-> done]
    ELSE LET w == Head(writes) IN
         IF w.fail THEN [dir |-> dir, threw |-> TRUE, files |-> done]
         ELSE applyWrites(writeFile(dir, w.path, w.content), Tail(writes),
                          Append(done, w.path))

Write(p, c, f) == [path |-> p, content |-> c, fail |-> f]
\* The outcome of one adapter call: the destination directory afterwards,
\* "ok" (a record is returned), "null" or "throw", and the files recorded.
Outcome(out, status, files) ==
    [out |-> out, status |-> status, files |-> files]

\* ------------------------------------------------- adapters/skill.ts
\* Faulty variant of toCodexFrontmatter: every field is kept.
toCodexFrontmatter_keepsAll(data) == data
toCodexFrontmatter(data) ==
    [k \in {x \in {"name", "description"} : Truthy(data, x)} |-> data[k]]

adaptLine(l) ==
    IF \E t \in Tools : l = UseTool(t)
    THEN Neutral(CHOOSE t \in Tools : l = UseTool(t))
    ELSE l
adaptContent(content) == [i \in 1..Len(content) |-> adaptLine(content[i])]

\* ------------------------------------------------- adapters/agent.ts
OriginalModel == "Original model: "
Sep == ". "
\* Faulty variant of agentToCodexFrontmatter: the model is not folded into
\* the description.
agentToCodexFrontmatter_unfolded(data) ==
    [k \in {x \in {"name"} : Truthy(data, x)} \cup {"description"} |->
        IF k = "name" THEN data[k]
        ELSE IF Truthy(data, "description") THEN data["description"] ELSE <<>>]
agentToCodexFrontmatter(data) ==
    LET d == IF Truthy(data, "description") THEN data["description"] ELSE <<>>
        m == IF Truthy(data, "model")
             THEN <<OriginalModel>> \o data["model"] ELSE <<>>
        description == IF d # <<>> /\ m # <<>> THEN d \o <<Sep>> \o m
                       ELSE d \o m
    IN  [k \in {x \in {"name"} : Truthy(data, x)} \cup {"description"} |->
            IF k = "name" THEN data[k] ELSE description]

adaptAgentLine(l) ==
    IF \E t \in Tools : l = UseTool(t)
    THEN Neutral(CHOOSE t \in Tools : l = UseTool(t))
    ELSE IF \E t \in BacktickTools : l = Backticked(t)
    THEN BacktickFree(CHOOSE t \in BacktickTools : l = Backticked(t))
    ELSE l
adaptAgentContent(content) ==
    [i \in 1..Len(content) |-> adaptAgentLine(content[i])]


\* ------------------------------------------- adapters/skill.ts, continued
\* Secondary markdown document of a Primary skill, as written to Shared.
skillSubDoc(c) ==
    stringify(trimStart(adaptContent(matterContent(c))),
              toCodexFrontmatter(matterData(c)))

\* The manifest transformSkill writes for the Primary manifest raw.
skillOutput(raw) ==
    LET codexFrontmatter == toCodexFrontmatter(matterData(raw))
        adaptedContent == adaptContent(matterContent(raw))
    IN  stringify(<<HdrSkill, Blank>> \o trimStart(adaptedContent),
                  codexFrontmatter)

\* What transformSkill writes, in order: the manifest, the .ts files of the
\* skill's root into scripts/, the other .md files of the root re-serialized.
skillWrites(src, tsFiles, mdFiles) ==
    <<Write(<<SKILL>>, skillOutput(src.files[<<SKILL>>]), FALSE)>>
    \o [i \in 1..Len(tsFiles) |->
          Write(<<"scripts", tsFiles[i]>>, src.files[<<tsFiles[i]>>],
                readFails(src.files[<<tsFiles[i]>>]))]
    \o [i \in 1..Len(mdFiles) |->
          Write(<<mdFiles[i]>>, skillSubDoc(src.files[<<mdFiles[i]>>]),
                parseFails(src.files[<<mdFiles[i]>>]))]

\* The outcome of an adapter that performed the writes r.
writesOutcome(r) ==
    Outcome(r.dir, IF r.threw THEN "throw" ELSE "ok", r.files)

isScript(f) == endsWithTs(f) /\ f # SKILL
isSubDoc(f) == endsWithMd(f) /\ f # SKILL

\* Faulty variant of transformSkill: a manifest already in Shared is kept.
transformSkill_keepsExisting(src, out, dryRun) ==
    IF ~existsSync(src, <<SKILL>>) THEN Outcome(out, "null", <<>>)
    ELSE IF parseFails(src.files[<<SKILL>>]) THEN Outcome(out, "throw", <<>>)
    ELSE IF dryRun \/ existsSync(out, <<SKILL>>)
    THEN Outcome(out, "ok", <<<<SKILL>>>>)
    ELSE writesOutcome(
            applyWrites(mkdir(out),
                        skillWrites(src, rootEntries(src, isScript),
                                    rootEntries(src, isSubDoc)),
                        <<>>))
\* transformSkill(skillDir, outputDir, dryRun): src is the Primary skill
\* directory, out the directory of the same name in Shared.
transformSkill(src, out, dryRun) ==
    IF ~existsSync(src, <<SKILL>>) THEN Outcome(out, "null", <<>>)
    ELSE IF parseFails(src.files[<<SKILL>>]) THEN Outcome(out, "throw", <<>>)
    ELSE IF dryRun THEN Outcome(out, "ok", <<<<SKILL>>>>)
    ELSE writesOutcome(
            applyWrites(mkdir(out),
                        skillWrites(src, rootEntries(src, isScript),
                                    rootEntries(src, isSubDoc)),
                        <<>>))

\* ------------------------------------------- adapters/agent.ts, continued
\* The manifest transformAgent writes for the Primary agent document raw.
agentOutput(raw) ==
    LET codexFrontmatter == agentToCodexFrontmatter(matterData(raw))
        adaptedContent == adaptAgentContent(matterContent(raw))
    IN  stringify(<<HdrAgent, Blank>> \o trimStart(adaptedContent),
                  codexFrontmatter)

\* transformAgent(agentPath, outputDir, dryRun): raw is the content of the
\* Primary agent document, out the directory of the same name in Shared.
transformAgent(raw, out, dryRun) ==
    IF parseFails(raw) THEN Outcome(out, "throw", <<>>)
    ELSE IF dryRun THEN Outcome(out, "ok", <<<<SKILL>>>>)
    ELSE Outcome(writeFile(mkdir(out), <<SKILL>>, agentOutput(raw)), "ok",
                 <<<<SKILL>>>>)

\* ------------------------------------------------- adapters/codex.ts
\* Faulty variant of detectOriginKind: leading white space is not skipped.
detectOriginKind_untrimmed(content) ==
    LET firstLine == IF content = <<>> THEN Blank ELSE Head(content)
    IN  IF firstLine = HdrAgent THEN "agent"
        ELSE IF firstLine = HdrSkill THEN "skill"
        ELSE "unknown"
\* detectOriginKind(content): decided by the first line after leading
\* white space.
detectOriginKind(content) ==
    LET trimmed == trimStart(content)
        firstLine == IF trimmed = <<>> THEN Blank ELSE Head(trimmed)
    IN  IF firstLine = HdrAgent THEN "agent"
        ELSE IF firstLine = HdrSkill THEN "skill"
        ELSE "unknown"

\* stripAutoHeader(content): AUTO_HEADER_RE is anchored at the start of the
\* text and consumes one header line and the white space after it.
stripAutoHeader(content) ==
    IF content # <<>> /\ Head(content) \in Headers
    THEN trimStart(Tail(content)) ELSE content

\* Position of the leftmost match of /(?:^|\.\s)Original model: (.+)$/ in a
\* description, as the index of the "Original model: " fragment; 0 if none.
modelMatch(description) ==
    LET hits == {i \in 1..Len(description) :
                    /\ description[i] = OriginalModel
                    /\ i = 1 \/ description[i - 1] = Sep
                    /\ i < Len(description)}
    IN  IF hits = {} THEN 0
        ELSE CHOOSE i \in hits : \A j \in hits : i <= j

\* Faulty variant of splitDescriptionAndModel: the model is never split off.
splitDescriptionAndModel_noSplit(description) ==
    [description |-> description, model |-> <<>>]
\* splitDescriptionAndModel(description): a field that is <<>> is undefined.
splitDescriptionAndModel(description) ==
    LET i == modelMatch(description) IN
    IF description = <<>> THEN [description |-> <<>>, model |-> <<>>]
    ELSE IF i = 0 THEN [description |-> description, model |-> <<>>]
    ELSE [description |-> IF i = 1 THEN <<>> ELSE SubSeq(description, 1, i - 2),
          model |-> SubSeq(description, i + 1, Len(description))]

\* Secondary markdown document of a Shared skill, as written to Primary.
claudeSubDoc(c) == stringify(trimStart(matterContent(c)), matterData(c))

\* The manifest or agent document written to Primary: a fresh header, then
\* the content without its leading header.
claudeOutput(content, frontmatter) ==
    stringify(<<HdrCodex, Blank>>
                  \o trimStart(stripAutoHeader(trimStart(content))),
              frontmatter)

\* The metadata of a back-filled skill: the Shared metadata, with the
\* directory name as name when it has none.
claudeSkillFrontmatter(name, data) ==
    IF Truthy(data, "name") THEN data
    ELSE [k \in DOMAIN data \cup {"name"} |->
            IF k = "name" THEN <<name>> ELSE data[k]]

\* The .ts files of the scripts/ subdirectory of a Shared skill.
scriptEntries(src) ==
    SelectSeq(<<"run.ts">>,
              LAMBDA f : Present(src.files[<<"scripts", f>>]) /\ endsWithTs(f))

\* What writeClaudeSkill writes, in order: the manifest, the scripts into
\* the root of the Primary skill directory, the secondary documents.
claudeSkillWrites(output, src, tsFiles, mdFiles) ==
    <<Write(<<SKILL>>, output, FALSE)>>
    \o [i \in 1..Len(tsFiles) |->
          Write(<<tsFiles[i]>>, src.files[<<"scripts", tsFiles[i]>>],
                readFails(src.files[<<"scripts", tsFiles[i]>>]))]
    \o [i \in 1..Len(mdFiles) |->
          Write(<<mdFiles[i]>>, claudeSubDoc(src.files[<<mdFiles[i]>>]),
                parseFails(src.files[<<mdFiles[i]>>]))]

\* The files a dry run of writeClaudeSkill lists.
claudeSkillPaths(tsFiles, mdFiles) ==
    <<<<SKILL>>>> \o [i \in 1..Len(tsFiles) |-> <<tsFiles[i]>>]
        \o [i \in 1..Len(mdFiles) |-> <<mdFiles[i]>>]

\* writeClaudeSkill(name, data, content, skillDir, outputSkillsDir, dryRun):
\* src is the Shared skill directory, out is skills/<name> in Primary.
writeClaudeSkill(name, data, content, src, out, dryRun) ==
    IF dryRun
    THEN Outcome(out, "ok",
                 claudeSkillPaths(scriptEntries(src), rootEntries(src, isSubDoc)))
    ELSE writesOutcome(
            applyWrites(mkdir(out),
                        claudeSkillWrites(
                            claudeOutput(content, claudeSkillFrontmatter(name, data)),
                            src, scriptEntries(src), rootEntries(src, isSubDoc)),
                        <<>>))

\* The metadata of a back-filled agent: the name, and the description and
\* model recovered from the Shared description.
claudeAgentFrontmatter(name, split) ==
    [k \in {"name"} \cup {x \in {"description", "model"} : split[x] # <<>>} |->
        IF k = "name" THEN <<name>> ELSE split[k]]

\* writeClaudeAgent(name, data, content, outputAgentsDir, dryRun): the
\* content of agents/<name>.md.
writeClaudeAgent(name, data, content) ==
    claudeOutput(content,
        claudeAgentFrontmatter(name,
            splitDescriptionAndModel(IF "description" \in DOMAIN data
                                     THEN data["description"] ELSE <<>>)))

\* The outcome of transformCodexSkillToClaude: both destinations in Primary
\* afterwards and the kind of item written.
Backfill(status, kind, skillOut, agentOut, files) ==
    [status |-> status, kind |-> kind, skillOut |-> skillOut,
     agentOut |-> agentOut, files |-> files]

skillBackfill(w, agentOut) ==
    Backfill(w.status, IF w.status = "ok" THEN "skill" ELSE "none", w.out,
             agentOut, w.files)

\* transformCodexSkillToClaude once the Shared manifest is parsed.
backfillParsed(name, data, content, src, skillOut, agentOut, dryRun) ==
    IF detectOriginKind(content) = "agent"
    THEN IF Present(agentOut)
         THEN Backfill("null", "none", skillOut, agentOut, <<>>)
         ELSE Backfill("ok", "agent", skillOut,
                       IF dryRun THEN agentOut
                       ELSE writeClaudeAgent(name, data, content),
                       <<<<name>>>>)
    ELSE IF existsSync(skillOut, <<SKILL>>)
         THEN Backfill("null", "none", skillOut, agentOut, <<>>)
         ELSE skillBackfill(
                  writeClaudeSkill(name, data, content, src, skillOut, dryRun),
                  agentOut)

\* transformCodexSkillToClaude(skillDir, outputSkillsDir, outputAgentsDir,
\* dryRun): src is the Shared skill directory; skillOut and agentOut are
\* skills/<name> and agents/<name>.md in Primary.
transformCodexSkillToClaude(name, src, skillOut, agentOut, dryRun) ==
    IF ~existsSync(src, <<SKILL>>)
    THEN Backfill("null", "none", skillOut, agentOut, <<>>)
    ELSE IF parseFails(src.files[<<SKILL>>])
    THEN Backfill("throw", "none", skillOut, agentOut, <<>>)
    ELSE backfillParsed(name, matterData(src.files[<<SKILL>>]),
                        matterContent(src.files[<<SKILL>>]), src, skillOut,
                        agentOut, dryRun)

\* ---------------------------------------------------------------- sync.ts
\* discoverSkillDirs(skillsDir): the names of the directories of a tree
\* that contain a manifest; a tree that does not exist has no directory.
discoverSkillDirs(tree) ==
    SelectSeq(NameOrder, LAMBDA n : existsSync(tree[n], <<SKILL>>))

\* discoverAgents(claudeDir): the names of the .md files of agents/.
discoverAgents(agentDocs) ==
    SelectSeq(NameOrder, LAMBDA n : Present(agentDocs[n]))

Range(s) == {s[i] : i \in 1..Len(s)}
RecNames(recs) == {recs[i].name : i \in 1..Len(recs)}

\* A project document: content and modification time; absent when the
\* content is None.
NoFile == [content |-> None, mtime |-> 0]
Max(a, b) == IF a >= b THEN a ELSE b

\* Faulty variant of docSource: equal modification times favour AGENTS.md.
docSource_tiesToAgents(docs) ==
    IF Present(docs.claude.content) /\ Present(docs.agents.content)
    THEN IF docs.claude.mtime > docs.agents.mtime THEN "claude" ELSE "agents"
    ELSE IF Present(docs.claude.content) THEN "claude"
    ELSE "agents"
\* The direction of the merge: CLAUDE.md is the source when only it exists,
\* or when both exist and it is as new as or newer than AGENTS.md.
docSource(docs) ==
    IF Present(docs.claude.content) /\ Present(docs.agents.content)
    THEN IF docs.claude.mtime = docs.agents.mtime THEN "claude"
         ELSE IF docs.claude.mtime > docs.agents.mtime THEN "claude"
         ELSE "agents"
    ELSE IF Present(docs.claude.content) THEN "claude"
    ELSE "agents"

docName(which) == IF which = "claude" THEN "CLAUDE.md" ELSE "AGENTS.md"

\* Faulty variants of copyDoc: every record says "updated"; equal content
\* is copied and recorded all the same.
copyDoc_alwaysUpdated(docs, source, dest, dryRun) ==
    IF Present(docs[dest].content) /\ docs[dest].content = docs[source].content
    THEN [docs |-> docs, recs |-> <<>>]
    ELSE [docs |-> IF dryRun THEN docs
                   ELSE [docs EXCEPT ![dest] =
                            [content |-> docs[source].content,
                             mtime |-> Max(docs.claude.mtime, docs.agents.mtime) + 1]],
          recs |-> <<[name |-> docName(dest), action |-> "updated"]>>]
copyDoc_noShortCircuit(docs, source, dest, dryRun) ==
    [docs |-> IF dryRun THEN docs
              ELSE [docs EXCEPT ![dest] =
                       [content |-> docs[source].content,
                        mtime |-> Max(docs.claude.mtime, docs.agents.mtime) + 1]],
     recs |-> <<[name |-> docName(dest),
                 action |-> IF Present(docs[dest].content)
                            THEN "updated" ELSE "created"]>>]
\* Faulty variant of copyDoc: the documents are compared by modification
\* time, not by content.
copyDoc_comparesTimes(docs, source, dest, dryRun) ==
    IF Present(docs[dest].content) /\ docs[dest].mtime = docs[source].mtime
    THEN [docs |-> docs, recs |-> <<>>]
    ELSE [docs |-> IF dryRun THEN docs
                   ELSE [docs EXCEPT ![dest] =
                            [content |-> docs[source].content,
                             mtime |-> Max(docs.claude.mtime, docs.agents.mtime) + 1]],
          recs |-> <<[name |-> docName(dest),
                      action |-> IF Present(docs[dest].content)
                                 THEN "updated" ELSE "created"]>>]
\* The copy of the source document over the destination.  A write stamps
\* the destination with the current time, which is later than every
\* modification time on disk.
copyDoc(docs, source, dest, dryRun) ==
    IF Present(docs[dest].content) /\ docs[dest].content = docs[source].content
    THEN [docs |-> docs, recs |-> <<>>]
    ELSE [docs |-> IF dryRun THEN docs
                   ELSE [docs EXCEPT ![dest] =
                            [content |-> docs[source].content,
                             mtime |-> Max(docs.claude.mtime, docs.agents.mtime) + 1]],
          recs |-> <<[name |-> docName(dest),
                      action |-> IF Present(docs[dest].content)
                                 THEN "updated" ELSE "created"]>>]

\* syncProjectDocs(cwd, dryRun): docs.claude is CLAUDE.md, docs.agents is
\* AGENTS.md.
syncProjectDocs(docs, dryRun) ==
    IF ~Present(docs.claude.content) /\ ~Present(docs.agents.content)
    THEN [docs |-> docs, recs |-> <<>>]
    ELSE copyDoc(docs, docSource(docs),
                 IF docSource(docs) = "claude" THEN "agents" ELSE "claude",
                 dryRun)

\* The copies migrateCodexToAgents makes of one Legacy skill directory: the
\* files of its root, then the files of its scripts/ subdirectory.  Files
\* further down are not visited.
copiesOf(dir, rootFiles, subFiles) ==
    [i \in 1..Len(rootFiles) |->
        Write(<<rootFiles[i]>>, dir.files[<<rootFiles[i]>>],
              readFails(dir.files[<<rootFiles[i]>>]))]
    \o [i \in 1..Len(subFiles) |->
        Write(<<"scripts", subFiles[i]>>, dir.files[<<"scripts", subFiles[i]>>],
              readFails(dir.files[<<"scripts", subFiles[i]>>]))]

anyFile(f) == TRUE
migrationWrites(dir) ==
    copiesOf(dir, rootEntries(dir, anyFile),
             SelectSeq(<<"run.ts">>,
                       LAMBDA f : Present(dir.files[<<"scripts", f>>])))

\* Faulty variants of removesDir: the dry-run test forgotten, the cleanup
\* test forgotten, the dry-run test inverted.
removesDir_ignoringDryRun(cleanup, dryRun) == cleanup
removesDir_ignoringCleanup(cleanup, dryRun) == ~dryRun
removesDir_onlyInDryRun(cleanup, dryRun) == cleanup /\ dryRun
\* The test that guards rm -rf of a Legacy skill directory.
removesDir(cleanup, dryRun) == cleanup /\ ~dryRun

\* The cleanup at the end of an iteration of migrateCodexToAgents: the
\* directory is removed in a real run with cleanup, and its name is listed
\* whenever cleanup is enabled.
cleanedUp(m, name, dryRun, cleanup) ==
    [m EXCEPT
        !.codex[name] = IF removesDir(cleanup, dryRun) THEN NoDir ELSE @,
        !.deleted = IF cleanup THEN Append(@, name) ELSE @]

\* The migration of one directory in a real run, r being its copies.
copied(m, name, r, dryRun, cleanup) ==
    IF r.threw
    THEN [m EXCEPT !.agents[name] = r.dir, !.threw = TRUE]
    ELSE cleanedUp([m EXCEPT !.agents[name] = r.dir,
                             !.migrated = Append(@, [name |-> name,
                                                     files |-> r.files])],
                   name, dryRun, cleanup)

\* Faulty variant of migrateOne: a directory excluded because Primary
\* claims its name is never cleaned up.
migrateOne_keepsExcluded(m, name, excludeNames, dryRun, cleanup) ==
    IF name \in excludeNames
    THEN m
    ELSE IF dryRun
    THEN cleanedUp([m EXCEPT !.migrated =
                        Append(@, [name |-> name, files |-> <<<<SKILL>>>>])],
                   name, dryRun, cleanup)
    ELSE copied(m, name,
                  applyWrites(mkdir(m.agents[name]),
                              migrationWrites(m.codex[name]), <<>>),
                  dryRun, cleanup)

\* One iteration of the loop of migrateCodexToAgents, for the Legacy skill
\* directory called name.  m holds the two trees and the lists built so far.
migrateOne(m, name, excludeNames, dryRun, cleanup) ==
    IF name \in excludeNames
    THEN cleanedUp(m, name, dryRun, cleanup)
    ELSE IF dryRun
    THEN cleanedUp([m EXCEPT !.migrated =
                        Append(@, [name |-> name, files |-> <<<<SKILL>>>>])],
                   name, dryRun, cleanup)
    ELSE copied(m, name,
                  applyWrites(mkdir(m.agents[name]),
                              migrationWrites(m.codex[name]), <<>>),
                  dryRun, cleanup)

RECURSIVE migrateLoop(_, _, _, _, _)
migrateLoop(m, dirs, excludeNames, dryRun, cleanup) ==
    IF dirs = <<>> \/ m.threw THEN m
    ELSE migrateLoop(migrateOne(m, Head(dirs), excludeNames, dryRun, cleanup),
                     Tail(dirs), excludeNames, dryRun, cleanup)

\* migrateCodexToAgents(codexSkillsDir, agentsSkillsDir, excludeNames,
\* dryRun, cleanup).  threw: a copy failed and the call rejected.
migrateCodexToAgents(codex, agents, excludeNames, dryRun, cleanup) ==
    migrateLoop([codex |-> codex, agents |-> agents, migrated |-> <<>>,
                 deleted |-> <<>>, threw |-> FALSE],
                discoverSkillDirs(codex), excludeNames, dryRun, cleanup)

\* The report sync() resolves to.  status is "rejected" when sync() threw
\* instead of returning: the caller then has no report.
EmptyResult ==
    [status |-> "ok",
     toAgentsSkills |-> <<>>, toAgentsAgents |-> <<>>,
     toClaudeSkills |-> <<>>, toClaudeAgents |-> <<>>,
     migrated |-> <<>>, deleted |-> <<>>, docs |-> <<>>, errors |-> <<>>]
Rejected == [EmptyResult EXCEPT !.status = "rejected"]

Rec(name, files) == [name |-> name, files |-> files]
Err(name, source) == [name |-> name, source |-> source]

\* The run in progress s after the Primary->Shared adapter returned r for
\* the item called name: list is the report list a record goes to, source
\* the path an error names.
afterToAgents(s, name, r, list, source) ==
    [s EXCEPT
        !.fs.agents[name] = r.out,
        !.res[list] = IF r.status = "ok" THEN Append(@, Rec(name, r.files)) ELSE @,
        !.res.errors = IF r.status = "throw"
                       THEN Append(@, Err(name, source)) ELSE @]

\* Step 1, first loop: Primary skills to Shared.  s is the run in progress:
\* the trees (s.fs), the report (s.res) and the claimed names.
RECURSIVE claudeSkillsToAgents(_, _, _)
claudeSkillsToAgents(s, dirs, dryRun) ==
    IF dirs = <<>> THEN s
    ELSE claudeSkillsToAgents(
            afterToAgents(s, Head(dirs),
                transformSkill(s.fs.claudeSkills[Head(dirs)],
                               s.fs.agents[Head(dirs)], dryRun),
                "toAgentsSkills", <<"skills", Head(dirs)>>),
            Tail(dirs), dryRun)

\* Faulty variant of claudeAgentsToAgents: an agent is transformed even when
\* a Primary skill has its name.
RECURSIVE claudeAgentsToAgents_noSuppression(_, _, _, _)
claudeAgentsToAgents_noSuppression(s, paths, claudeSkillNames, dryRun) ==
    IF paths = <<>> THEN s
    ELSE claudeAgentsToAgents_noSuppression(
            afterToAgents(s, Head(paths),
                transformAgent(s.fs.claudeAgents[Head(paths)],
                               s.fs.agents[Head(paths)], dryRun),
                "toAgentsAgents", <<"agents", Head(paths)>>),
            Tail(paths), claudeSkillNames, dryRun)

\* Step 1, second loop: Primary agents to Shared, except those whose name
\* is the name of a Primary skill.
RECURSIVE claudeAgentsToAgents(_, _, _, _)
claudeAgentsToAgents(s, paths, claudeSkillNames, dryRun) ==
    IF paths = <<>> THEN s
    ELSE IF Head(paths) \in claudeSkillNames
    THEN claudeAgentsToAgents(s, Tail(paths), claudeSkillNames, dryRun)
    ELSE claudeAgentsToAgents(
            afterToAgents(s, Head(paths),
                transformAgent(s.fs.claudeAgents[Head(paths)],
                               s.fs.agents[Head(paths)], dryRun),
                "toAgentsAgents", <<"agents", Head(paths)>>),
            Tail(paths), claudeSkillNames, dryRun)

\* Faulty variant of afterMigration: the migrated names are not claimed.
afterMigration_notClaimed(s, migration) ==
    [s EXCEPT !.fs.codex = migration.codex,
              !.fs.agents = migration.agents,
              !.res.migrated = migration.migrated,
              !.res.deleted = migration.deleted,
              !.threw = migration.threw]
\* The run in progress after the migration returned: the migrated names
\* join the claimed names.
afterMigration(s, migration) ==
    [s EXCEPT !.fs.codex = migration.codex,
              !.fs.agents = migration.agents,
              !.res.migrated = migration.migrated,
              !.res.deleted = migration.deleted,
              !.claudeNames = @ \cup RecNames(migration.migrated),
              !.threw = migration.threw]

\* Step 2: Legacy to Shared.
codexToAgents(s, dryRun, cleanupCodex) ==
    afterMigration(s,
        migrateCodexToAgents(s.fs.codex, s.fs.agents, s.claudeNames, dryRun,
                             cleanupCodex))

\* The run in progress after the Shared->Primary adapter returned r for the
\* item called name.
afterToClaude(s, name, r) ==
    [s EXCEPT
        !.fs.claudeSkills[name] = r.skillOut,
        !.fs.claudeAgents[name] = r.agentOut,
        !.res.toClaudeAgents =
            IF r.status = "ok" /\ r.kind = "agent"
            THEN Append(@, Rec(name, r.files)) ELSE @,
        !.res.toClaudeSkills =
            IF r.status = "ok" /\ r.kind # "agent"
            THEN Append(@, Rec(name, r.files)) ELSE @,
        !.claudeNames = IF r.status = "ok" THEN @ \cup {name} ELSE @,
        !.res.errors = IF r.status = "throw"
                       THEN Append(@, Err(name, <<"shared", name>>)) ELSE @]

\* Faulty variant of agentsToClaude: every Shared item is written to
\* Primary again, whether or not Primary has it.
RECURSIVE agentsToClaude_overwrites(_, _, _)
agentsToClaude_overwrites(s, dirs, dryRun) ==
    IF dirs = <<>> THEN s
    ELSE agentsToClaude_overwrites(
            afterToClaude(s, Head(dirs),
                transformCodexSkillToClaude(Head(dirs), s.fs.agents[Head(dirs)],
                    NoDir, None, dryRun)),
            Tail(dirs), dryRun)
\* Step 3: Shared to Primary, for the names that are not claimed.
RECURSIVE agentsToClaude(_, _, _)
agentsToClaude(s, dirs, dryRun) ==
    IF dirs = <<>> THEN s
    ELSE IF Head(dirs) \in s.claudeNames
    THEN agentsToClaude(s, Tail(dirs), dryRun)
    ELSE agentsToClaude(
            afterToClaude(s, Head(dirs),
                transformCodexSkillToClaude(Head(dirs), s.fs.agents[Head(dirs)],
                    s.fs.claudeSkills[Head(dirs)], s.fs.claudeAgents[Head(dirs)],
                    dryRun)),
            Tail(dirs), dryRun)

\* Faulty variant of trackedClaudeNames: the skill names forgotten.
trackedClaudeNames_agentsOnly(claudeSkillNames, claudeAgentNames) ==
    claudeAgentNames
\* Faulty variant of trackedClaudeNames: the agent names forgotten.
trackedClaudeNames_skillsOnly(claudeSkillNames, claudeAgentNames) ==
    claudeSkillNames
\* "Track names synced from Claude": the names step 2 excludes.
trackedClaudeNames(claudeSkillNames, claudeAgentNames) ==
    claudeSkillNames \cup claudeAgentNames

\* Step 3 on the re-discovered Shared directories, unless step 2 threw.
refreshAndBackfill(s, dryRun) ==
    IF s.threw THEN s
    ELSE agentsToClaude(s, discoverSkillDirs(s.fs.agents), dryRun)

\* Steps 1 to 3 for the Primary skills and agents discovered.
reconcile(s, claudeSkillDirs, claudeAgentPaths, options) ==
    refreshAndBackfill(
        codexToAgents(
            [claudeAgentsToAgents(
                claudeSkillsToAgents(s, claudeSkillDirs, options.dryRun),
                claudeAgentPaths, Range(claudeSkillDirs), options.dryRun)
             EXCEPT !.claudeNames =
                trackedClaudeNames(Range(claudeSkillDirs), Range(claudeAgentPaths))],
            options.dryRun, options.cleanupCodex),
        options.dryRun)

\* The part of sync() guarded by syncGlobal.
syncGlobalPart(s, options) ==
    reconcile(s, discoverSkillDirs(s.fs.claudeSkills),
              discoverAgents(s.fs.claudeAgents), options)

\* The project documents merged into the outcome of the global part.
withDocs(g, d) ==
    [fs |-> [g.fs EXCEPT !.docs = d.docs], res |-> [g.res EXCEPT !.docs = d.recs]]

\* The end of sync(): the merge of the project documents and the report,
\* or the rejection when the global part threw.
finish(g, options) ==
    IF g.threw THEN [fs |-> g.fs, res |-> Rejected]
    ELSE IF options.syncLocal
    THEN withDocs(g, syncProjectDocs(g.fs.docs, options.dryRun))
    ELSE [fs |-> g.fs, res |-> g.res]

Started(fs) ==
    [fs |-> fs, res |-> EmptyResult, claudeNames |-> {}, threw |-> FALSE]

\* sync(options) started on the trees and documents fs: the trees and
\* documents afterwards and the report.
sync(fs, options) ==
    finish(IF options.syncGlobal THEN syncGlobalPart(Started(fs), options)
           ELSE Started(fs),
           options)

\* ------------------------------------------------------ starting states
\* What the trees can hold under one name before the first run.
Text(t) == [kind |-> "text", text |-> t]

claudeSkillStart(n) ==
    LET manifest == Doc([name |-> <<n>>, description |-> <<"does X">>,
                         color |-> <<"blue">>], <<Blank, UseRead, BtRead>>)
        notes == Doc([name |-> <<"notes">>, color |-> <<"red">>], <<UseRead>>)
        dir(files) == [exists |-> TRUE, files |-> files]
    IN  << \* a skill with a script and a secondary document
           dir([NoFiles EXCEPT ![<<SKILL>>] = manifest,
                               ![<<"notes.md">>] = notes,
                               ![<<"run.ts">>] = Script("claude")]),
           \* a directory without manifest
           dir([NoFiles EXCEPT ![<<"notes.md">>] = notes]),
           \* a manifest whose metadata does not parse
           dir([NoFiles EXCEPT ![<<SKILL>>] = Malformed]),
           \* a secondary document whose metadata does not parse
           dir([NoFiles EXCEPT ![<<SKILL>>] = manifest,
                               ![<<"notes.md">>] = Malformed]) >>

claudeAgentStart(n) ==
    << Doc([name |-> <<n>>, description |-> <<"helps">>, model |-> <<"m1">>,
            color |-> <<"blue">>], <<UseRead, BtRead>>),
       Malformed >>

agentsStart(n) ==
    LET dir(files) == [exists |-> TRUE, files |-> files]
    IN  << \* written by hand in Shared
           dir([NoFiles EXCEPT
                  ![<<SKILL>>] = Doc([name |-> <<n>>,
                                      description |-> <<"shared">>],
                                     <<"Shared text.">>),
                  ![<<"notes.md">>] = Doc([name |-> <<"notes">>], <<Blank, "Notes.">>),
                  ![<<"scripts", "run.ts">>] = Script("agents")]),
           \* left by an earlier run from a Primary agent
           dir([NoFiles EXCEPT
                  ![<<SKILL>>] = Doc([name |-> <<n>>,
                                      description |->
                                        <<"helps", Sep, OriginalModel, "m1">>],
                                     <<HdrAgent, Blank, "Agent text.">>)]),
           \* a manifest whose metadata does not parse
           dir([NoFiles EXCEPT ![<<SKILL>>] = Malformed]) >>

codexStart(n) ==
    LET manifest == Doc([name |-> <<n>>, description |-> <<"legacy">>],
                        <<"Legacy text.">>)
        dir(files) == [exists |-> TRUE, files |-> files]
    IN  << dir([NoFiles EXCEPT ![<<SKILL>>] = manifest,
                               ![<<"scripts", "run.ts">>] = Script("codex")]),
           dir([NoFiles EXCEPT ![<<SKILL>>] = manifest,
                               ![<<"scripts", "deep", "run.ts">>] = Script("codex")]),
           \* a file that cannot be read
           dir([NoFiles EXCEPT ![<<SKILL>>] = manifest,
                               ![<<"run.ts">>] = Unreadable]) >>

docStart ==
    << [content |-> Text("one"), mtime |-> 1],
       [content |-> Text("one"), mtime |-> 2],
       [content |-> Text("two"), mtime |-> 1],
       [content |-> Text("two"), mtime |-> 2] >>

\* The places an item can be in: a tree and a name, or a project document.
Slots ==
    ({"claudeSkills", "claudeAgents", "agents", "codex"} \X Names)
        \cup {<<"docs", "claude">>, <<"docs", "agents">>}

startChoices(slot) ==
    IF slot[1] = "claudeSkills" THEN claudeSkillStart(slot[2])
    ELSE IF slot[1] = "claudeAgents" THEN claudeAgentStart(slot[2])
    ELSE IF slot[1] = "agents" THEN agentsStart(slot[2])
    ELSE IF slot[1] = "codex" THEN codexStart(slot[2])
    ELSE docStart

MostChoices ==
    CHOOSE k \in 1..Len(claudeSkillStart("a")) :
        \A slot \in Slots : Len(startChoices(slot)) <= k

\* The trees and documents in which the slots of S hold the chosen items
\* and every other slot is empty.
startFs(S, v) ==
    LET at(slot, empty) ==
            IF slot \in S THEN startChoices(slot)[v[slot]] ELSE empty
    IN  [claudeSkills |-> [n \in Names |-> at(<<"claudeSkills", n>>, NoDir)],
         claudeAgents |-> [n \in Names |-> at(<<"claudeAgents", n>>, None)],
         agents |-> [n \in Names |-> at(<<"agents", n>>, NoDir)],
         codex |-> [n \in Names |-> at(<<"codex", n>>, NoDir)],
         docs |-> [claude |-> at(<<"docs", "claude">>, NoFile),
                   agents |-> at(<<"docs", "agents">>, NoFile)]]

Options ==
    [dryRun : BOOLEAN, syncGlobal : BOOLEAN, syncLocal : BOOLEAN,
     cleanupCodex : BOOLEAN]
\* sync-agents without flags (cli.ts)
DefaultOptions ==
    [dryRun |-> FALSE, syncGlobal |-> TRUE, syncLocal |-> TRUE,
     cleanupCodex |-> TRUE]

\* The flags of the command line and the options cli.ts derives from them.
Flags == {"--dry-run", "--global", "--local", "--no-cleanup"}
cliOptions(args) ==
    LET isGlobalOnly == "--global" \in args
        isLocalOnly == "--local" \in args
    IN  [dryRun |-> "--dry-run" \in args,
         syncGlobal |-> ~isLocalOnly,
         syncLocal |-> ~isGlobalOnly,
         cleanupCodex |-> "--no-cleanup" \notin args]

\* ---------------------------------------------------------- state machine
VARIABLES
    fs,       \* the three trees and the project documents
    options,  \* the flags the tool is invoked with
    pre,      \* the trees and documents when the last run started
    result,   \* the report of the last run
    runs      \* number of runs so far

vars == <<fs, options, pre, result, runs>>

Init ==
    /\ \E S \in {T \in SUBSET Slots : Cardinality(T) <= MaxItems} :
         \E v \in [S -> 1..MostChoices] :
           /\ \A slot \in S : v[slot] <= Len(startChoices(slot))
           /\ fs = startFs(S, v)
    /\ options \in Options
    /\ pre = fs
    /\ result = EmptyResult
    /\ runs = 0

\* One invocation of sync().
Sync ==
    /\ runs < MaxRuns
    /\ LET r == sync(fs, options) IN
         /\ fs' = r.fs
         /\ result' = r.res
    /\ pre' = fs
    /\ runs' = runs + 1
    /\ UNCHANGED options

Next == Sync

Spec == Init /\ [][Next]_vars

\* ------------------------------------------- one Primary item, any content
\* The adapters applied to one Primary skill or agent whose metadata block
\* and body are drawn from every combination of keys and lines.
\* Largest number of lines of the item's body.
MaxLines == 2
\* A metadata value: the empty string or some text.
MetaValue == {<<>>, <<"text">>}
Metadata == UNION {[S -> MetaValue] : S \in SUBSET Keys}
BodyLines ==
    {Blank, "Plain text."} \cup {UseTool(t) : t \in Tools}
        \cup {Backticked(t) : t \in BacktickTools}
Bodies == UNION {[1..n -> BodyLines] : n \in 0..MaxLines}

\* The trees that hold nothing but the Primary item a of the given kind,
\* with document doc as its manifest.
itemFs(kind, doc) ==
    [startFs({}, <<>>) EXCEPT
        !.claudeSkills["a"] =
            IF kind = "skill"
            THEN [exists |-> TRUE, files |-> [NoFiles EXCEPT ![<<SKILL>>] = doc]]
            ELSE @,
        !.claudeAgents["a"] = IF kind = "agent" THEN doc ELSE @]

InitAdapters ==
    /\ \E kind \in {"skill", "agent"}, d \in Metadata, b \in Bodies :
         fs = itemFs(kind, Doc(d, b))
    /\ options = DefaultOptions
    /\ pre = fs
    /\ result = EmptyResult
    /\ runs = 0

SpecAdapters == InitAdapters /\ [][Next]_vars

\* -------------------------------------------------------- agent round trip
\* A Primary agent is converted to Shared, removed from Primary by its owner
\* and back-filled by the next run.
\* Descriptions: plain, ending with a period, containing the marker in the
\* middle of a sentence, containing it after a sentence end, starting with it.
Descriptions ==
    { <<"helps">>, <<"helps.">>, <<"see ", OriginalModel, "x">>,
      <<"uses", Sep, OriginalModel, "x">>, <<OriginalModel, "x">> }
Models == {<<"m1">>, <<"m2">>}
\* The metadata of agent a: name and description, model and color optional.
agentData(d, m, optional) ==
    [k \in {"name", "description"} \cup optional |->
        IF k = "name" THEN <<"a">>
        ELSE IF k = "description" THEN d
        ELSE IF k = "model" THEN m
        ELSE <<"blue">>]

InitRoundTrip ==
    /\ \E d \in Descriptions, m \in Models, optional \in SUBSET {"model", "color"},
          b \in Bodies :
         fs = itemFs("agent", Doc(agentData(d, m, optional), b))
    /\ options = DefaultOptions
    /\ pre = fs
    /\ result = EmptyResult
    /\ runs = 0

\* The owner deletes agents/a.md after the first run.  pre keeps the trees
\* the first run started from.
Forget ==
    /\ runs = 1
    /\ Present(fs.claudeAgents["a"])
    /\ fs' = [fs EXCEPT !.claudeAgents["a"] = None]
    /\ UNCHANGED <<options, pre, result, runs>>

NextRoundTrip == Sync \/ Forget

SpecRoundTrip == InitRoundTrip /\ [][NextRoundTrip]_vars

\* ------------------------------------------------------------- repeated runs
\* Real runs repeated without edits in between, from the starting states in
\* which every file can be read.
MaxRepeats == 4

allReadable(f) ==
    \A t \in {"claudeSkills", "agents", "codex"} : \A n \in Names :
        \A path \in DOMAIN f[t][n].files : ~readFails(f[t][n].files[path])

InitConverge ==
    /\ \E S \in {T \in SUBSET Slots : Cardinality(T) <= MaxItems} :
         \E v \in [S -> 1..MostChoices] :
           /\ \A slot \in S : v[slot] <= Len(startChoices(slot))
           /\ fs = startFs(S, v)
    /\ allReadable(fs)
    /\ options \in {o \in Options : ~o.dryRun}
    /\ pre = fs
    /\ result = EmptyResult
    /\ runs = 0

\* One more invocation of sync() with the same options.
Repeat ==
    /\ runs < MaxRepeats
    /\ LET r == sync(fs, options) IN
         /\ fs' = r.fs
         /\ result' = r.res
    /\ pre' = fs
    /\ runs' = runs + 1
    /\ UNCHANGED options

NextConverge == Repeat

SpecConverge == InitConverge /\ [][NextConverge]_vars

\* ---------------------------------------------------------------- back-fill
\* One Shared item a whose manifest body starts with any header or with
\* none, back-filled into a Primary that may hold something under its name.
\* Bodies of a Shared manifest: an optional blank line, an optional header
\* followed by a blank line, then text, possibly with an older header in it.
SharedBodies ==
    {lead \o hdr \o rest :
        lead \in {<<>>, <<Blank>>},
        hdr \in {<<>>} \cup {<<h, Blank>> : h \in Headers},
        rest \in {<<>>, <<"Shared text.">>, <<HdrCodex, Blank, "Shared text.">>}}
SharedData ==
    UNION {[S -> {<<"text">>}] : S \in SUBSET {"name", "description"}}
        \cup {[name |-> <<"a">>,
               description |-> <<"helps", Sep, OriginalModel, "m1">>]}
\* The Shared skill directory with the given manifest and auxiliary files.
sharedItem(manifest, aux) ==
    [exists |-> TRUE,
     files |-> [NoFiles EXCEPT
        ![<<SKILL>>] = manifest,
        ![<<"notes.md">>] =
            IF "notes" \in aux THEN Doc([name |-> <<"notes">>], <<Blank, "Notes.">>)
            ELSE None,
        ![<<"scripts", "run.ts">>] =
            IF "script" \in aux THEN Script("agents") ELSE None]]
\* What Primary holds under the name a: nothing, a directory without
\* manifest, a skill, an agent.
PrimaryStarts == {"nothing", "directory", "skill", "agent"}
backfillFs(shared, primary) ==
    [startFs({}, <<>>) EXCEPT
        !.agents["a"] = shared,
        !.claudeSkills["a"] =
            IF primary = "directory" THEN claudeSkillStart("a")[2]
            ELSE IF primary = "skill" THEN claudeSkillStart("a")[1]
            ELSE @,
        !.claudeAgents["a"] =
            IF primary = "agent" THEN claudeAgentStart("a")[1] ELSE @]

InitBackfill ==
    /\ \E d \in SharedData, b \in SharedBodies,
          aux \in SUBSET {"notes", "script"}, primary \in PrimaryStarts :
         fs = backfillFs(sharedItem(Doc(d, b), aux), primary)
    /\ options = DefaultOptions
    /\ pre = fs
    /\ result = EmptyResult
    /\ runs = 0

SpecBackfill == InitBackfill /\ [][Next]_vars

\* ---------------------------------------------------------------- discovery
\* discoverSkillDirs and discoverAgents applied to directories as readdir
\* lists them.  In this specification fs holds the skills directory and the
\* agents directory, and result what the last discovery returned.
\* Largest number of entries of a directory.
MaxEntries == 2
\* The shape of a directory entry: the extension of its name, whether it is
\* a directory and, for a directory, whether it contains SKILL.md.  The
\* entry at position i of a listing is named by i.
EntryShapes ==
    {e \in [ext : {"", ".md"}, isDirectory : BOOLEAN, manifest : BOOLEAN] :
        e.manifest => e.isDirectory}
Listings == UNION {[1..n -> EntryShapes] : n \in 0..MaxEntries}
\* A directory that may not exist.
Missing == [exists |-> FALSE, entries |-> <<>>]
Roots == {Missing} \cup {[exists |-> TRUE, entries |-> l] : l \in Listings}

\* readdir(dir, {withFileTypes: true}): rejects when dir does not exist.
readdir(dir) ==
    IF dir.exists THEN [status |-> "ok", entries |-> dir.entries]
    ELSE [status |-> "throw", entries |-> <<>>]

\* What a discovery returns: the positions of the entries it selected, or
\* the rejection of its promise.
Found(op, paths) == [op |-> op, status |-> "ok", paths |-> paths]
Thrown(op) == [op |-> op, status |-> "throw", paths |-> <<>>]
\* The positions of the entries of a listing that satisfy Test, in order.
positions(entries, Test(_)) ==
    SelectSeq([i \in 1..Len(entries) |-> i], LAMBDA i : Test(entries[i]))

isSkillDir(e) == e.isDirectory /\ e.manifest
isAgentFile(e) == ~e.isDirectory /\ e.ext = ".md"

\* The body of discoverSkillDirs after its guard: the directories that
\* contain SKILL.md.
validDirs(listed) ==
    IF listed.status = "throw" THEN Thrown("skills")
    ELSE Found("skills", positions(listed.entries, isSkillDir))

\* Faulty variant of discoverSkillDirsAt: the existsSync guard forgotten.
discoverSkillDirsAt_unguarded(skillsDir) == validDirs(readdir(skillsDir))
\* discoverSkillDirs(skillsDir) on the listing of skillsDir.
discoverSkillDirsAt(skillsDir) ==
    IF ~skillsDir.exists THEN Found("skills", <<>>)
    ELSE validDirs(readdir(skillsDir))

\* The body of discoverAgents after its guard: the files named *.md.
agentFiles(listed) ==
    IF listed.status = "throw" THEN Thrown("agents")
    ELSE Found("agents", positions(listed.entries, isAgentFile))

\* discoverAgents(claudeDir) on the listing of claudeDir/agents.
discoverAgentsAt(agentsDir) ==
    IF ~agentsDir.exists THEN Found("agents", <<>>)
    ELSE agentFiles(readdir(agentsDir))

InitDiscovery ==
    /\ fs \in [skillsDir : Roots, agentsDir : Roots]
    /\ options = DefaultOptions
    /\ pre = fs
    /\ result = Found("none", <<>>)
    /\ runs = 0

\* One call of discoverSkillDirs: it writes nothing.
DiscoverSkills ==
    /\ runs < MaxRuns
    /\ result' = discoverSkillDirsAt(fs.skillsDir)
    /\ fs' = fs
    /\ pre' = fs
    /\ runs' = runs + 1
    /\ UNCHANGED options

\* One call of discoverAgents: it writes nothing.
DiscoverAgents ==
    /\ runs < MaxRuns
    /\ result' = discoverAgentsAt(fs.agentsDir)
    /\ fs' = fs
    /\ pre' = fs
    /\ runs' = runs + 1
    /\ UNCHANGED options

NextDiscovery == DiscoverSkills \/ DiscoverAgents

SpecDiscovery == InitDiscovery /\ [][NextDiscovery]_vars

\* ------------------------------------------------------------ properties
\* Vocabulary of the properties: what a run found when it started (pre) and
\* what it left (fs, result).
Ran == runs >= 1
RealRun == Ran /\ ~options.dryRun
GlobalRun == Ran /\ options.syncGlobal
primarySkillsOf(f) == Range(discoverSkillDirs(f.claudeSkills))
primaryAgentsOf(f) == Range(discoverAgents(f.claudeAgents))
\* Primary agents that are not suppressed by a skill of the same name.
primaryLiveAgentsOf(f) == primaryAgentsOf(f) \ primarySkillsOf(f)
primaryNamesOf(f) == primarySkillsOf(f) \cup primaryAgentsOf(f)
sharedNamesOf(f) == Range(discoverSkillDirs(f.agents))
legacyNamesOf(f) == Range(discoverSkillDirs(f.codex))
manifestOf(dir) == dir.files[<<SKILL>>]
\* The Primary manifest or document that governs name X.
primarySourceOf(f, X) ==
    IF X \in primarySkillsOf(f) THEN manifestOf(f.claudeSkills[X])
    ELSE f.claudeAgents[X]
\* The manifest the Primary->Shared adapter derives for name X.
primaryDerived(f, X) ==
    IF X \in primarySkillsOf(f) THEN skillOutput(manifestOf(f.claudeSkills[X]))
    ELSE agentOutput(f.claudeAgents[X])
\* Name X is a Primary item and a Legacy skill with different content.
inPrimaryAndLegacy(f, X) ==
    /\ X \in primarySkillsOf(f) \cup primaryLiveAgentsOf(f)
    /\ X \in legacyNamesOf(f)
    /\ manifestOf(f.codex[X]) # primarySourceOf(f, X)
\* The migration copied no file of Legacy/X into Shared/X.
noLegacyCopy(X) ==
    /\ X \notin RecNames(result.migrated)
    /\ \A p \in AllPaths :
         Present(pre.codex[X].files[p]) /\ fs.agents[X].files[p] = pre.codex[X].files[p]
            => pre.agents[X].files[p] = pre.codex[X].files[p]

\* C1 (as claimed): after a real run with global scope, for every name X
\* that is a Primary item and a Legacy skill with different content, the
\* manifest of Shared/X is the Primary-derived transform, is not the Legacy
\* copy, and the migration wrote nothing into Shared/X.
C1_Precedence ==
    (RealRun /\ GlobalRun) =>
        \A X \in Names : inPrimaryAndLegacy(pre, X) =>
            /\ manifestOf(fs.agents[X]) = primaryDerived(pre, X)
            /\ manifestOf(fs.agents[X]) # manifestOf(pre.codex[X])
            /\ noLegacyCopy(X)

\* C1 (amended): the same for every such X whose Primary manifest or agent
\* document can be read and parsed; when it cannot, Shared/X is left as it
\* was, and in either case the migration writes nothing into Shared/X.
C1_PrecedenceParsed ==
    (RealRun /\ GlobalRun) =>
        \A X \in Names : inPrimaryAndLegacy(pre, X) =>
            /\ noLegacyCopy(X)
            /\ IF parseFails(primarySourceOf(pre, X))
               THEN fs.agents[X] = pre.agents[X]
               ELSE /\ manifestOf(fs.agents[X]) = primaryDerived(pre, X)
                    /\ manifestOf(fs.agents[X]) # manifestOf(pre.codex[X])

C1_Witness ==
    /\ RealRun /\ GlobalRun
    /\ \E X \in Names :
         /\ inPrimaryAndLegacy(pre, X)
         /\ ~parseFails(primarySourceOf(pre, X))
         /\ manifestOf(fs.agents[X]) = primaryDerived(pre, X)
         /\ X \in RecNames(result.toAgentsSkills) \cup RecNames(result.toAgentsAgents)

\* Every file of the Primary tree that existed before the run has the same
\* content after it.
primaryFilesKept ==
    /\ \A n \in Names : \A p \in AllPaths :
         Present(pre.claudeSkills[n].files[p])
            => fs.claudeSkills[n].files[p] = pre.claudeSkills[n].files[p]
    /\ \A n \in Names :
         Present(pre.claudeAgents[n]) => fs.claudeAgents[n] = pre.claudeAgents[n]

\* C2: the Shared->Primary pass writes only items whose name is absent from
\* Primary's skill and agent names, and every file that existed under the
\* Primary tree before the run has the same content after the run.
C2_BackfillAdditive ==
    Ran =>
        /\ (RecNames(result.toClaudeSkills) \cup RecNames(result.toClaudeAgents))
              \cap primaryNamesOf(pre) = {}
        /\ primaryFilesKept

\* C3: a Legacy skill whose name is present in Shared before the migration
\* pass (written from Primary this run, or already in Shared) is skipped by
\* the migration, which leaves the files of that Shared item unchanged.
C3_MigrationAdditive ==
    (RealRun /\ GlobalRun) =>
        \A X \in legacyNamesOf(pre) :
            X \in sharedNamesOf(pre) \cup primaryNamesOf(pre) => noLegacyCopy(X)

\* Every file and directory of tree before is still there in tree after.
nothingRemoved(before, after) ==
    \A n \in Names :
        /\ before[n].exists => after[n].exists
        /\ \A p \in AllPaths :
             Present(before[n].files[p]) => Present(after[n].files[p])

\* C4: no run removes a file or directory from the Primary tree, the Shared
\* tree or the project documents; a Legacy skill directory is removed only
\* when cleanup is enabled and the run is not a dry run.
C4_NoDeletion ==
    Ran =>
        /\ nothingRemoved(pre.claudeSkills, fs.claudeSkills)
        /\ \A n \in Names : Present(pre.claudeAgents[n]) => Present(fs.claudeAgents[n])
        /\ nothingRemoved(pre.agents, fs.agents)
        /\ Present(pre.docs.claude.content) => Present(fs.docs.claude.content)
        /\ Present(pre.docs.agents.content) => Present(fs.docs.agents.content)
        /\ ~nothingRemoved(pre.codex, fs.codex)
              => options.cleanupCodex /\ ~options.dryRun
        /\ \A n \in Names :
             fs.codex[n] # pre.codex[n]
                => n \in legacyNamesOf(pre) /\ fs.codex[n] = NoDir

C4_Witness ==
    /\ Ran
    /\ \E n \in Names : pre.codex[n].exists /\ ~fs.codex[n].exists
    /\ \E n \in Names : pre.agents[n].exists /\ fs.agents[n] # pre.agents[n]
    /\ \E n \in Names : fs.claudeSkills[n] # pre.claudeSkills[n]

\* The second of two runs in succession with the flags of a plain
\* invocation: pre is the state the first run left.
SecondDefaultRun == runs >= 2 /\ options = DefaultOptions

\* C5 (as claimed): the second of two default real runs in succession
\* returns a report all of whose lists of changes are empty.
C5_Idempotent ==
    SecondDefaultRun =>
        /\ result.status = "ok"
        /\ result.toAgentsSkills = <<>> /\ result.toAgentsAgents = <<>>
        /\ result.migrated = <<>> /\ result.deleted = <<>>
        /\ result.toClaudeSkills = <<>> /\ result.toClaudeAgents = <<>>
        /\ result.docs = <<>>

\* C5 (amended): the report of the second run has empty Legacy->Shared,
\* removed-Legacy and project-document lists, while its Primary->Shared
\* lists name again every Primary item whose transform succeeds.
C5_SecondRunLists ==
    (SecondDefaultRun /\ result.status = "ok") =>
        /\ result.migrated = <<>> /\ result.deleted = <<>>
        /\ result.docs = <<>>
        /\ legacyNamesOf(pre) = {}
        /\ fs.docs = pre.docs
        /\ \A n \in primarySkillsOf(pre) :
             \/ n \in RecNames(result.toAgentsSkills)
             \/ Err(n, <<"skills", n>>) \in Range(result.errors)
        /\ \A n \in primaryLiveAgentsOf(pre) :
             \/ n \in RecNames(result.toAgentsAgents)
             \/ Err(n, <<"agents", n>>) \in Range(result.errors)

C5_Witness ==
    /\ SecondDefaultRun /\ result.status = "ok"
    /\ result.toAgentsSkills # <<>>
    /\ result.migrated = <<>>
    /\ \E n \in Names : pre.agents[n].files[<<"scripts", "run.ts">>] = Script("codex")
    /\ Present(pre.docs.claude.content) /\ Present(pre.docs.agents.content)

\* A copy of the migration of Legacy directory dir throws.
copyFails(dir) ==
    \E i \in 1..Len(migrationWrites(dir)) : migrationWrites(dir)[i].fail
\* The Legacy names the migration loop of the last run got past: all of
\* them, or those before the first directory whose copy threw.
legacyProcessed ==
    LET dirs == discoverSkillDirs(pre.codex)
        bad == {i \in 1..Len(dirs) :
                   dirs[i] \notin primaryNamesOf(pre) /\ copyFails(pre.codex[dirs[i]])}
    IN  {dirs[i] : i \in {j \in 1..Len(dirs) : \A k \in bad : j < k}}

C7_DryRun ==
    (Ran /\ options.dryRun) =>
        /\ fs = pre
        /\ RecNames(result.toAgentsSkills) = primarySkillsOf(pre)
        /\ Len(result.toAgentsSkills) = Cardinality(primarySkillsOf(pre))

\* C7 (amended): a dry run leaves every file as it was; with global scope
\* it produces one Primary->Shared record per Primary skill whose manifest
\* can be read and parsed and an error for each other Primary skill; without
\* global scope it produces no such record.
C7_DryRunGlobal ==
    (Ran /\ options.dryRun) =>
        LET parsed == {n \in primarySkillsOf(pre) :
                          ~parseFails(manifestOf(pre.claudeSkills[n]))}
            expected == IF options.syncGlobal THEN parsed ELSE {}
        IN  /\ fs = pre
            /\ RecNames(result.toAgentsSkills) = expected
            /\ Len(result.toAgentsSkills) = Cardinality(expected)
            /\ options.syncGlobal =>
                  \A n \in primarySkillsOf(pre) \ parsed :
                      n \in RecNames(result.errors)

C7_Witness ==
    /\ Ran /\ options.dryRun /\ options.syncGlobal /\ options.cleanupCodex
    /\ options.syncLocal
    /\ result.toAgentsSkills # <<>>
    /\ result.deleted # <<>>
    /\ result.docs # <<>>
    /\ fs = pre

\* The names a report lists, list by list.
reportNames(res) ==
    [toAgentsSkills |-> RecNames(res.toAgentsSkills),
     toAgentsAgents |-> RecNames(res.toAgentsAgents),
     migrated |-> RecNames(res.migrated),
     deleted |-> Range(res.deleted),
     toClaudeSkills |-> RecNames(res.toClaudeSkills),
     toClaudeAgents |-> RecNames(res.toClaudeAgents),
     docs |-> RecNames(res.docs),
     errors |-> RecNames(res.errors)]

\* C8: from the state the last run started in and with the same other
\* flags, the run with the opposite dryRun flag reports the same names in
\* every list.
C8_DryRunPredicts ==
    Ran =>
        reportNames(result)
            = reportNames(sync(pre, [options EXCEPT !.dryRun = ~@]).res)

\* C9: a failing item never aborts the run: sync() returns a report, every
\* discovered item of each pass is either recorded or listed in the errors
\* with its name and source, and the later passes are carried out.
C9_FailureIsolated ==
    GlobalRun =>
        LET claimed == primaryNamesOf(pre) \cup legacyNamesOf(pre)
        IN  /\ result.status = "ok"
            /\ \A n \in primarySkillsOf(pre) :
                 \/ n \in RecNames(result.toAgentsSkills)
                 \/ Err(n, <<"skills", n>>) \in Range(result.errors)
            /\ \A n \in primaryLiveAgentsOf(pre) :
                 \/ n \in RecNames(result.toAgentsAgents)
                 \/ Err(n, <<"agents", n>>) \in Range(result.errors)
            /\ \A n \in legacyNamesOf(pre) \ primaryNamesOf(pre) :
                 \/ n \in RecNames(result.migrated)
                 \/ n \in RecNames(result.errors)
            /\ \A n \in sharedNamesOf(pre) \ claimed :
                 \/ n \in RecNames(result.toClaudeSkills)
                        \cup RecNames(result.toClaudeAgents)
                 \/ Err(n, <<"shared", n>>) \in Range(result.errors)

\* C10: a Legacy skill whose name is absent from Primary and that a real
\* run migrates into Shared exists in Primary after that same run.
C10_SameRunBackfill ==
    (RealRun /\ GlobalRun /\ result.status = "ok") =>
        \A n \in RecNames(result.migrated) :
            n \in primaryNamesOf(fs)
                /\ n \in RecNames(result.toClaudeSkills)
                        \cup RecNames(result.toClaudeAgents)

\* C11: for each Legacy skill a real run migrates, every file under the
\* Legacy skill directory, at any nesting depth, is at the same relative path
\* under Shared/<name> with identical bytes when the Legacy directory becomes
\* eligible for removal, so migration followed by cleanup loses no file.
C11_CompleteCopy ==
    (RealRun /\ GlobalRun) =>
        \A n \in RecNames(result.migrated) : \A p \in AllPaths :
            Present(pre.codex[n].files[p])
                => fs.agents[n].files[p] = pre.codex[n].files[p]

\* The Primary->Shared adapter, run on the item called X of trees f, returns
\* a record.
adapterSucceeds(f, X) ==
    IF X \in primarySkillsOf(f)
    THEN transformSkill(f.claudeSkills[X], f.agents[X], FALSE).status = "ok"
    ELSE transformAgent(f.claudeAgents[X], f.agents[X], FALSE).status = "ok"

\* C12: after a real run in which the adapter does not fail, for every
\* Primary skill and every Primary agent not suppressed by a same-named
\* skill, the manifest Shared/<name>/SKILL.md equals the transform of the
\* current Primary item, whatever Shared held under that name before.
C12_PrimaryOverwrites ==
    (RealRun /\ GlobalRun) =>
        \A X \in primarySkillsOf(pre) \cup primaryLiveAgentsOf(pre) :
            adapterSucceeds(pre, X) =>
                /\ X \in primarySkillsOf(fs) \cup primaryLiveAgentsOf(fs)
                /\ manifestOf(fs.agents[X]) = primaryDerived(fs, X)
                /\ primaryDerived(fs, X) = primaryDerived(pre, X)

C12_Witness ==
    /\ RealRun /\ GlobalRun
    /\ \E X \in primarySkillsOf(pre) :
         /\ adapterSucceeds(pre, X)
         /\ existsSync(pre.agents[X], <<SKILL>>)
         /\ manifestOf(pre.agents[X]) # primaryDerived(pre, X)
         /\ manifestOf(fs.agents[X]) = primaryDerived(pre, X)
    /\ \E X \in primaryLiveAgentsOf(pre) :
         /\ adapterSucceeds(pre, X)
         /\ manifestOf(fs.agents[X]) = primaryDerived(pre, X)

\* Document c has exactly one provenance header line, its first line.
oneHeader(c) ==
    /\ c.kind = "doc"
    /\ c.body # <<>>
    /\ Head(c.body) \in Headers
    /\ Cardinality({i \in 1..Len(c.body) : c.body[i] \in Headers}) = 1

\* C13: after any sequence of real runs from any starting state, the body of
\* every manifest the engine wrote in Shared or Primary contains exactly one
\* auto-generated provenance header line, at its start.
C13_HeadersNeverNest ==
    RealRun =>
        /\ \A n \in RecNames(result.toAgentsSkills) \cup RecNames(result.toAgentsAgents) :
             oneHeader(manifestOf(fs.agents[n]))
        /\ \A n \in RecNames(result.toClaudeSkills) :
             oneHeader(manifestOf(fs.claudeSkills[n]))
        /\ \A n \in RecNames(result.toClaudeAgents) :
             oneHeader(fs.claudeAgents[n])

\* The metadata written to Shared for name n, and the Primary metadata it
\* was derived from.
sharedData(n) == manifestOf(fs.agents[n]).data
primaryData(n) == primarySourceOf(pre, n).data
toAgentsNames == RecNames(result.toAgentsSkills) \cup RecNames(result.toAgentsAgents)

\* C14: for every Primary skill or agent, whatever metadata keys it carries,
\* the metadata of the manifest written to Shared contains no key other than
\* name and description, and for a skill the retained name and description
\* values are the Primary values unchanged.
C14_MetadataProjection ==
    (RealRun /\ GlobalRun) =>
        /\ \A n \in toAgentsNames :
             DOMAIN sharedData(n) \subseteq {"name", "description"}
        /\ \A n \in RecNames(result.toAgentsSkills) :
             \A k \in {"name", "description"} :
                /\ Truthy(primaryData(n), k) => k \in DOMAIN sharedData(n)
                /\ k \in DOMAIN sharedData(n) => sharedData(n)[k] = primaryData(n)[k]

C14_Witness ==
    /\ RealRun /\ GlobalRun
    /\ \E n \in RecNames(result.toAgentsSkills) :
         /\ {"color", "model"} \subseteq DOMAIN primaryData(n)
         /\ Truthy(primaryData(n), "name") /\ Truthy(primaryData(n), "description")
         /\ DOMAIN sharedData(n) = {"name", "description"}

\* The lines the Primary->Shared rewriting is to remove.
ToolLines ==
    {UseTool(t) : t \in Tools} \cup {Backticked(t) : t \in BacktickTools}

\* C15: in the body written to Shared for a skill or for an agent, every
\* "Use the Read/Write/Glob/Grep/Edit/Bash tool" phrase and every
\* backtick-quoted tool name Glob, Grep, Read of the Primary body has been
\* replaced, so none of them remains.
C15_BodyRewritten ==
    (RealRun /\ GlobalRun) =>
        \A n \in toAgentsNames :
            \A i \in 1..Len(manifestOf(fs.agents[n]).body) :
                manifestOf(fs.agents[n]).body[i] \notin ToolLines

\* C16 (as claimed): for a Primary agent with description d and model m the
\* Shared description is exactly "d. Original model: m" and the metadata has
\* no model key; for an agent without a model the description is d.
C16_ModelFold ==
    (RealRun /\ GlobalRun) =>
        \A n \in RecNames(result.toAgentsAgents) :
            /\ "model" \notin DOMAIN sharedData(n)
            /\ {"description", "model"} \subseteq DOMAIN primaryData(n) =>
                  sharedData(n)["description"]
                     = primaryData(n)["description"] \o <<Sep, OriginalModel>>
                          \o primaryData(n)["model"]
            /\ ("description" \in DOMAIN primaryData(n)
                    /\ "model" \notin DOMAIN primaryData(n)) =>
                  sharedData(n)["description"] = primaryData(n)["description"]

\* C16 (amended): the fold is "d. Original model: m" when d and m are both
\* non-empty; an empty or missing model leaves the description as d (empty
\* when d is missing); an empty or missing description with a non-empty
\* model gives "Original model: m" without the separator; the metadata
\* never has a model key.
C16_ModelFoldNonEmpty ==
    (RealRun /\ GlobalRun) =>
        \A n \in RecNames(result.toAgentsAgents) :
            /\ "model" \notin DOMAIN sharedData(n)
            /\ "description" \in DOMAIN sharedData(n)
            /\ (Truthy(primaryData(n), "description")
                    /\ Truthy(primaryData(n), "model")) =>
                  sharedData(n)["description"]
                     = primaryData(n)["description"] \o <<Sep, OriginalModel>>
                          \o primaryData(n)["model"]
            /\ (Truthy(primaryData(n), "description")
                    /\ ~Truthy(primaryData(n), "model")) =>
                  sharedData(n)["description"] = primaryData(n)["description"]
            /\ (~Truthy(primaryData(n), "description")
                    /\ Truthy(primaryData(n), "model")) =>
                  sharedData(n)["description"]
                     = <<OriginalModel>> \o primaryData(n)["model"]
            /\ (~Truthy(primaryData(n), "description")
                    /\ ~Truthy(primaryData(n), "model")) =>
                  sharedData(n)["description"] = <<>>

C16_Witness ==
    /\ RealRun /\ GlobalRun
    /\ \E n \in RecNames(result.toAgentsAgents) :
         /\ Truthy(primaryData(n), "description")
         /\ Truthy(primaryData(n), "model")
         /\ sharedData(n)["description"]
               = primaryData(n)["description"] \o <<Sep, OriginalModel>>
                    \o primaryData(n)["model"]
         /\ "model" \notin DOMAIN sharedData(n)

\* The last run carried out the merge of the project documents.
mergerRan == Ran /\ options.syncLocal /\ result.status = "ok"
bothDocs(d) == Present(d.claude.content) /\ Present(d.agents.content)
\* The last run copied document source over document dest, left the source
\* alone and reported the destination with the given action.
docCopied(source, dest, action) ==
    /\ fs.docs[source] = pre.docs[source]
    /\ ~options.dryRun => fs.docs[dest].content = pre.docs[source].content
    /\ options.dryRun => fs.docs[dest] = pre.docs[dest]
    /\ result.docs = <<[name |-> docName(dest), action |-> action]>>

\* C17: when both CLAUDE.md and AGENTS.md exist with different content, the
\* merger copies CLAUDE.md over AGENTS.md if CLAUDE.md's modification time
\* is equal to or newer than AGENTS.md's, and AGENTS.md over CLAUDE.md
\* otherwise; the source is never modified and the action is "updated".
C17_DocDirection ==
    (mergerRan /\ bothDocs(pre.docs)
        /\ pre.docs.claude.content # pre.docs.agents.content) =>
        IF pre.docs.claude.mtime >= pre.docs.agents.mtime
        THEN docCopied("claude", "agents", "updated")
        ELSE docCopied("agents", "claude", "updated")

C17_Witness ==
    /\ mergerRan /\ ~options.dryRun /\ bothDocs(pre.docs)
    /\ pre.docs.claude.content # pre.docs.agents.content
    /\ pre.docs.claude.mtime = pre.docs.agents.mtime
    /\ fs.docs.agents.content = pre.docs.claude.content
    /\ fs.docs.claude = pre.docs.claude
    /\ result.docs = <<[name |-> "AGENTS.md", action |-> "updated"]>>

\* C18: when exactly one of CLAUDE.md and AGENTS.md exists, a real merge
\* creates the other with identical content and reports one record with
\* action "created"; when neither exists the merger writes nothing and
\* reports no record.
C18_DocCreation ==
    mergerRan =>
        /\ (~options.dryRun /\ Present(pre.docs.claude.content)
                /\ ~Present(pre.docs.agents.content)) =>
              docCopied("claude", "agents", "created")
        /\ (~options.dryRun /\ Present(pre.docs.agents.content)
                /\ ~Present(pre.docs.claude.content)) =>
              docCopied("agents", "claude", "created")
        /\ (~Present(pre.docs.claude.content)
                /\ ~Present(pre.docs.agents.content)) =>
              fs.docs = pre.docs /\ result.docs = <<>>

C18_Witness ==
    /\ mergerRan /\ ~options.dryRun
    /\ Present(pre.docs.agents.content) /\ ~Present(pre.docs.claude.content)
    /\ fs.docs.claude.content = pre.docs.agents.content
    /\ result.docs = <<[name |-> "CLAUDE.md", action |-> "created"]>>

\* C19: whenever both documents exist with equal content, the merger
\* performs no write and returns no record, for every ordering of the two
\* modification times.
C19_DocShortCircuit ==
    (mergerRan /\ bothDocs(pre.docs)
        /\ pre.docs.claude.content = pre.docs.agents.content) =>
        fs.docs = pre.docs /\ result.docs = <<>>

C19_Witness ==
    /\ mergerRan /\ ~options.dryRun /\ runs = 1 /\ bothDocs(pre.docs)
    /\ pre.docs.claude.content = pre.docs.agents.content
    /\ pre.docs.claude.mtime < pre.docs.agents.mtime
    /\ fs.docs = pre.docs /\ result.docs = <<>>

\* C20: discovering skills or agents in a tree whose root (or agents
\* subdirectory) does not exist returns an empty sequence without error; a
\* directory without a SKILL.md manifest and a file of the agents directory
\* without the .md extension are never returned; discovery changes no file.
C20_DiscoveryTotal ==
    Ran =>
        /\ result.status = "ok"
        /\ fs = pre
        /\ result.op = "skills" =>
              /\ ~pre.skillsDir.exists => result.paths = <<>>
              /\ \A i \in Range(result.paths) :
                   /\ pre.skillsDir.entries[i].isDirectory
                   /\ pre.skillsDir.entries[i].manifest
        /\ result.op = "agents" =>
              /\ ~pre.agentsDir.exists => result.paths = <<>>
              /\ \A i \in Range(result.paths) :
                   /\ ~pre.agentsDir.entries[i].isDirectory
                   /\ pre.agentsDir.entries[i].ext = ".md"

C20_Witness ==
    /\ runs >= 2
    /\ result.op = "skills" /\ result.status = "ok"
    /\ ~pre.agentsDir.exists
    /\ pre.skillsDir.exists /\ Len(pre.skillsDir.entries) = 2
    /\ ~pre.skillsDir.entries[1].manifest
    /\ pre.skillsDir.entries[1].isDirectory
    /\ result.paths = <<2>>

\* The names that are a Primary skill and a Primary agent.
sameNamed(f) == primarySkillsOf(f) \cap primaryAgentsOf(f)
\* The agent called X produced no record, no error and no write: Shared/X is
\* what the skill adapter alone leaves.
agentDropped(X) ==
    /\ X \notin RecNames(result.toAgentsAgents)
    /\ Err(X, <<"agents", X>>) \notin Range(result.errors)
    /\ fs.agents[X]
          = transformSkill(pre.claudeSkills[X], pre.agents[X], options.dryRun).out

\* C22 (as claimed): when Primary contains a skill and an agent with the
\* same name, the Primary->Shared pass transforms the skill only; the agent
\* produces no record, no error and no write, and Shared/<name> holds the
\* skill-derived manifest.
C22_SkillSuppressesAgent ==
    (RealRun /\ GlobalRun) =>
        \A X \in sameNamed(pre) :
            /\ agentDropped(X)
            /\ X \in RecNames(result.toAgentsSkills)
            /\ manifestOf(fs.agents[X]) = skillOutput(manifestOf(pre.claudeSkills[X]))

\* C22 (amended): the agent is dropped in every case; Shared/<name> holds
\* the skill-derived manifest when the skill's manifest can be read and
\* parsed, and otherwise the skill is listed in the errors and Shared/<name>
\* is left as it was.
C22_SkillSuppressesAgentParsed ==
    (RealRun /\ GlobalRun) =>
        \A X \in sameNamed(pre) :
            /\ agentDropped(X)
            /\ IF parseFails(manifestOf(pre.claudeSkills[X]))
               THEN /\ Err(X, <<"skills", X>>) \in Range(result.errors)
                       \/ result.status = "rejected"
                    /\ fs.agents[X] = pre.agents[X]
               ELSE manifestOf(fs.agents[X])
                       = skillOutput(manifestOf(pre.claudeSkills[X]))

C22_Witness ==
    /\ RealRun /\ GlobalRun
    /\ \E X \in sameNamed(pre) :
         /\ ~parseFails(manifestOf(pre.claudeSkills[X]))
         /\ ~parseFails(pre.claudeAgents[X])
         /\ X \in RecNames(result.toAgentsSkills)
         /\ X \notin RecNames(result.toAgentsAgents)
         /\ manifestOf(fs.agents[X]) = skillOutput(manifestOf(pre.claudeSkills[X]))

\* The step that back-fills agent a after its owner removed it: the run
\* that follows the removal.  Before the step, pre holds the trees the
\* conversion started from.
backfillStep ==
    /\ runs = 1 /\ runs' = 2
    /\ ~Present(fs.claudeAgents["a"])
    /\ Present(pre.claudeAgents["a"])
\* The metadata the round trip is to give back: name, description and, when
\* the agent had one, model.
roundTripData(data) ==
    [k \in {"name", "description"} \cup ({"model"} \cap DOMAIN data) |->
        IF k = "name" THEN <<"a">> ELSE data[k]]
\* The description has the marker neither at its start nor after the end of
\* a sentence.
markerSafe(d) ==
    \A i \in 1..Len(d) : d[i] = OriginalModel => i > 1 /\ d[i - 1] # Sep

\* C23 (as claimed): a Primary agent with name n, description d and optional
\* model m that is converted to Shared and later back-filled into a Primary
\* that no longer has n is the agent document agents/n.md whose metadata is
\* exactly name n, description d and (when present) model m, for every d
\* and m, also a d that ends with a period or contains "Original model: ".
C23_AgentRoundTrip ==
    [][backfillStep =>
          /\ Present(fs'.claudeAgents["a"])
          /\ ~fs'.claudeSkills["a"].exists
          /\ fs'.claudeAgents["a"].data = roundTripData(pre.claudeAgents["a"].data)]_vars

\* C23 (amended): the same for every d that neither starts with "Original
\* model: " nor contains it right after a sentence end (". ").
C23_AgentRoundTripSafe ==
    [][(backfillStep /\ markerSafe(pre.claudeAgents["a"].data["description"])) =>
          /\ Present(fs'.claudeAgents["a"])
          /\ ~fs'.claudeSkills["a"].exists
          /\ fs'.claudeAgents["a"].data = roundTripData(pre.claudeAgents["a"].data)]_vars

C23_Witness ==
    /\ runs = 2
    /\ RecNames(result.toClaudeAgents) = {"a"}
    /\ Present(fs.claudeAgents["a"])
    /\ fs.claudeAgents["a"].data
          = [name |-> <<"a">>, description |-> <<"helps.">>, model |-> <<"m1">>]
    /\ manifestOf(fs.agents["a"]).data["description"]
          = <<"helps.", Sep, OriginalModel, "m1">>

\* The first line of a body that is not blank ("" when there is none).
firstTextLine(body) ==
    IF \A i \in 1..Len(body) : body[i] = Blank THEN Blank
    ELSE body[CHOOSE i \in 1..Len(body) :
                 body[i] # Blank /\ \A j \in 1..(i - 1) : body[j] = Blank]
\* new is old with a fresh Shared-origin header in front and old's leading
\* header, if it has one, removed together with the blank lines around it.
freshlyHeaded(new, old) ==
    /\ Len(new) >= 2 /\ new[1] = HdrCodex /\ new[2] = Blank
    /\ \E k \in 0..Len(old) :
         /\ SubSeq(new, 3, Len(new)) = SubSeq(old, k + 1, Len(old))
         /\ \A i \in 1..k : old[i] \in Headers \cup {Blank}
         /\ Cardinality({i \in 1..k : old[i] \in Headers})
               = IF firstTextLine(old) \in Headers THEN 1 ELSE 0
         /\ k < Len(old) => old[k + 1] # Blank
\* The Shared items of the last run that Primary did not have.
absentFromPrimary ==
    {X \in sharedNamesOf(pre) \ primaryNamesOf(pre) :
        ~parseFails(manifestOf(pre.agents[X]))}

\* C24: a Shared item absent from Primary is written as a Primary agent
\* document if and only if the first line of its body (leading blank lines
\* aside) is the provenance header of a Primary agent; in every other case
\* (skill header, Shared/Legacy header, no header) it is written as a
\* Primary skill directory whose body starts with a fresh header naming
\* Shared as the origin, the previous header having been removed.
C24_OriginKind ==
    (RealRun /\ GlobalRun) =>
        \A X \in absentFromPrimary :
            IF firstTextLine(manifestOf(pre.agents[X]).body) = HdrAgent
            THEN /\ X \in RecNames(result.toClaudeAgents)
                 /\ X \notin RecNames(result.toClaudeSkills)
                 /\ Present(fs.claudeAgents[X])
                 /\ fs.claudeSkills[X] = pre.claudeSkills[X]
            ELSE /\ X \in RecNames(result.toClaudeSkills)
                 /\ X \notin RecNames(result.toClaudeAgents)
                 /\ fs.claudeAgents[X] = pre.claudeAgents[X]
                 /\ existsSync(fs.claudeSkills[X], <<SKILL>>)
                 /\ freshlyHeaded(manifestOf(fs.claudeSkills[X]).body,
                                  manifestOf(pre.agents[X]).body)

C24_Witness ==
    /\ RealRun /\ GlobalRun /\ runs = 1
    /\ "a" \in absentFromPrimary
    /\ manifestOf(pre.agents["a"]).body = <<Blank, HdrSkill, Blank, "Shared text.">>
    /\ pre.claudeSkills["a"].exists
    /\ manifestOf(fs.claudeSkills["a"]).body = <<HdrCodex, Blank, "Shared text.">>
    /\ RecNames(result.toClaudeSkills) = {"a"}

\* The trees, without the project documents.
treesOf(f) == [t \in {"claudeSkills", "claudeAgents", "agents", "codex"} |-> f[t]]
TreeLists ==
    {"toAgentsSkills", "toAgentsAgents", "toClaudeSkills", "toClaudeAgents",
     "migrated", "deleted", "errors"}
\* A disabled scope touches nothing and reports nothing.
scopeGated ==
    /\ ~options.syncGlobal =>
          /\ treesOf(fs) = treesOf(pre)
          /\ \A l \in TreeLists : result[l] = <<>>
    /\ ~options.syncLocal =>
          /\ fs.docs = pre.docs
          /\ result.docs = <<>>
\* With local scope on, the documents are merged whatever the global scope
\* is and does.
docsIndependent ==
    options.syncLocal =>
        /\ fs.docs = syncProjectDocs(pre.docs, options.dryRun).docs
        /\ result.docs = syncProjectDocs(pre.docs, options.dryRun).recs
\* Without --global and --local both scopes run; every combination of the
\* options is a command line.
bothByDefault ==
    /\ \A args \in SUBSET Flags :
          args \cap {"--global", "--local"} = {} =>
              cliOptions(args).syncGlobal /\ cliOptions(args).syncLocal
    /\ options \in {cliOptions(args) : args \in SUBSET Flags}

\* C25: with global scope disabled no file of Primary, Shared or Legacy is
\* written or removed and the tree-related report lists are empty; with
\* local scope disabled the project documents are unchanged and the document
\* list is empty; the scopes are independent (the merge of the documents
\* does not depend on the global part); without --global and --local both
\* scopes run.
C25_ScopeGating ==
    Ran => scopeGated /\ docsIndependent /\ bothByDefault

\* The Legacy skill directories the last run removed.
removedLegacy == {n \in Names : pre.codex[n].exists /\ ~fs.codex[n].exists}

\* C26: a Legacy skill directory is removed only if Shared holds a manifest
\* for the same name (just migrated from Legacy or written from Primary in
\* this run), also when the Primary->Shared adapter for that name failed
\* and was recorded as an error.
C26_RemovalSafe ==
    Ran => \A n \in removedLegacy : existsSync(fs.agents[n], <<SKILL>>)

\* The content of every file of the trees and of the project documents.
contentOf(f) ==
    [trees |-> treesOf(f),
     docs |-> [d \in {"claude", "agents"} |-> f.docs[d].content]]

\* C27: with no edits between runs and no I/O failure, repeated real runs
\* reach a fixed state after at most three runs: every further run changes
\* the content of no file of Primary, Shared, Legacy or the project
\* documents.
C27_Converges ==
    runs > 3 => contentOf(fs) = contentOf(pre)

\* The fourth run after a Legacy skill went to Shared, from there to Primary
\* and from Primary to Shared again: it transforms the skill once more and
\* changes nothing.
C27_Witness ==
    /\ runs = 4
    /\ contentOf(fs) = contentOf(pre)
    /\ "a" \in RecNames(result.toAgentsSkills)
    /\ ~fs.codex["a"].exists
    /\ SubSeq(manifestOf(fs.agents["a"]).body, 1, 4)
          = <<HdrSkill, Blank, HdrCodex, Blank>>
    /\ manifestOf(fs.claudeSkills["a"]).body = <<HdrCodex, Blank, "Legacy text.">>

\* No name occurs twice in a list of records.
noDuplicate(recs) ==
    \A i, j \in 1..Len(recs) : recs[i].name = recs[j].name => i = j
toClaudeNames ==
    RecNames(result.toClaudeSkills) \cup RecNames(result.toClaudeAgents)

crossKind(f) == primarySkillsOf(f) \cap primaryAgentsOf(f)

\* C29: if before a run no name is both a Primary skill and a Primary agent,
\* this still holds after the run; the back-fill never creates an agent
\* document whose name is an existing Primary skill, nor a skill directory
\* whose name is an existing Primary agent.
C29_CrossKindUnique ==
    Ran =>
        /\ crossKind(pre) = {} => crossKind(fs) = {}
        /\ \A n \in Names :
              /\ (n \in primarySkillsOf(pre) /\ ~Present(pre.claudeAgents[n]))
                    => /\ ~Present(fs.claudeAgents[n])
                       /\ n \notin RecNames(result.toClaudeAgents)
              /\ (n \in primaryAgentsOf(pre) /\ ~pre.claudeSkills[n].exists)
                    => /\ ~fs.claudeSkills[n].exists
                       /\ n \notin RecNames(result.toClaudeSkills)

\* A Primary agent document that does not parse and a hand-written Shared
\* item of the same name: the Shared item stays as it is and no Primary
\* skill directory is created for it.
C29_Witness ==
    /\ runs = 1 /\ RealRun /\ GlobalRun
    /\ pre.claudeAgents["a"] = Malformed
    /\ ~pre.claudeSkills["a"].exists
    /\ pre.agents["a"] = agentsStart("a")[1]
    /\ fs.agents["a"] = pre.agents["a"]
    /\ ~fs.claudeSkills["a"].exists
    /\ Err("a", <<"agents", "a">>) \in Range(result.errors)

\* At least one of CLAUDE.md and AGENTS.md exists.
someDoc(d) == Present(d.claude.content) \/ Present(d.agents.content)

\* C30: after a real merge in which at least one of CLAUDE.md and AGENTS.md
\* existed, both files exist with identical content, and an immediately
\* following merge writes nothing and returns no record, even though the
\* first merge changed a modification time.
C30_DocsAgree ==
    (mergerRan /\ ~options.dryRun /\ someDoc(pre.docs)) =>
        /\ bothDocs(fs.docs)
        /\ fs.docs.claude.content = fs.docs.agents.content
        /\ syncProjectDocs(fs.docs, FALSE) = [docs |-> fs.docs, recs |-> <<>>]
        /\ (runs >= 2 /\ bothDocs(pre.docs)
              /\ pre.docs.claude.content = pre.docs.agents.content)
              => fs.docs = pre.docs /\ result.docs = <<>>

\* The merge after one that overwrote an older AGENTS.md: the two files
\* carry different modification times and the merge does nothing.
C30_Witness ==
    /\ runs = 2 /\ mergerRan /\ ~options.dryRun
    /\ bothDocs(fs.docs)
    /\ fs.docs.claude.mtime = 2 /\ fs.docs.agents.mtime = 3
    /\ fs.docs.claude.content = fs.docs.agents.content
    /\ fs.docs = pre.docs
    /\ result.docs = <<>>

\* The names the last run recorded as failed with the given kind of source.
failedFrom(kind) ==
    {n \in Names : Err(n, <<kind, n>>) \in Range(result.errors)}
\* The Shared manifests that exist after the last run and did not before.
newInShared ==
    {n \in Names : /\ existsSync(fs.agents[n], <<SKILL>>)
                   /\ ~existsSync(pre.agents[n], <<SKILL>>)}
newPrimarySkills ==
    {n \in Names : /\ existsSync(fs.claudeSkills[n], <<SKILL>>)
                   /\ ~existsSync(pre.claudeSkills[n], <<SKILL>>)}
newPrimaryAgents ==
    {n \in Names : Present(fs.claudeAgents[n]) /\ ~Present(pre.claudeAgents[n])}

\* C31: in a real run an item's destination manifest is written in a pass
\* if and only if the item is in that pass's record list: a recorded item
\* has its manifest at the destination, a manifest that appears at a
\* destination belongs to a recorded item, and an item recorded in the
\* errors list has had no file written to its destination.
C31_RecordsMatchWrites ==
    (RealRun /\ GlobalRun /\ result.status = "ok") =>
        /\ \A n \in toAgentsNames \cup RecNames(result.migrated) :
              existsSync(fs.agents[n], <<SKILL>>)
        /\ \A n \in RecNames(result.toClaudeSkills) :
              existsSync(fs.claudeSkills[n], <<SKILL>>)
        /\ \A n \in RecNames(result.toClaudeAgents) : Present(fs.claudeAgents[n])
        /\ newInShared \subseteq toAgentsNames \cup RecNames(result.migrated)
        /\ newPrimarySkills \subseteq RecNames(result.toClaudeSkills)
        /\ newPrimaryAgents \subseteq RecNames(result.toClaudeAgents)
        /\ \A n \in failedFrom("skills") \cup failedFrom("agents") :
              fs.agents[n] = pre.agents[n]
        /\ \A n \in failedFrom("shared") :
              /\ fs.claudeSkills[n] = pre.claudeSkills[n]
              /\ fs.claudeAgents[n] = pre.claudeAgents[n]

====
